---- MODULE Spec2Model ----
(***************************************************************************)
(* Model of GeminiLiveClient (services/geminiLive.ts): one client instance *)
(* driven by its public operations, by the browser (audio-context resume,  *)
(* microphone permission, timers, the script processor, the canvas         *)
(* encoder) and by the remote connection (open, message, close, error).    *)
(*                                                                         *)
(* The runtime is single-threaded: every action below is one task of the   *)
(* event loop together with the promise reactions (microtasks) it makes    *)
(* runnable.  An `await` or a callback handed to the browser ends the      *)
(* task; its continuation is another action.                               *)
(***************************************************************************)
EXTENDS Integers, Sequences, FiniteSets, TLC

\* ---- bounds ---------------------------------------------------------------
MaxCalls  == 2   \* connect() calls that get past the isActive guard
MaxInFlight == 2 \* of these, calls whose connection is not yet closed
MaxQueue  == 1   \* video and text sends queued on one pending session promise
MaxMic    == 2   \* microphone frames queued on one pending session promise
MaxTime   == 2   \* last tick of an output engine's clock
MaxCursor == 3   \* largest playback cursor
MaxDur    == 1   \* longest decoded chunk
MaxStr    == 2   \* characters held by the two transcription accumulators
MaxVideo  == 2   \* setInterval timers created by startVideoStreaming
MaxFrames == 1   \* video snapshots being encoded at once
MaxDecodes == 1  \* handleMessage calls suspended in decodeAudioData at once
MaxBurst == 2    \* the same, for audio arriving faster than it decodes
SampleDen == 10  \* float samples are the multiples of 1/SampleDen
MaxSamples == 2  \* longest array handed to createPcmBlob

Calls == 1..MaxCalls
Chars == {" ", "a"}

VARIABLES
  \* fields of the client (geminiLive.ts:15-29); 0 stands for null
  sessionPromise, inputAudioContext, outputAudioContext, outputGainNode,
  inputSource, processor, audioStreamDestination, nextStartTime, isActive,
  videoInterval, connectionTimeoutId,
  currentInputTranscription, currentOutputTranscription,
  \* the runtime around the client
  nCalls,      \* connect() calls that created resources so far
  pc,          \* where each connect() call is suspended
  awaiting,    \* the engine whose resume() a call awaits
  timer,       \* the establishment timer of each call
  conn,        \* the remote connection of each call
  race,        \* the Promise.race (session promise) of each call
  reactions,   \* then-callbacks queued on each pending session promise
  closedIn, closedOut,  \* audio engines on which close() was called
  procOn,      \* script processors still connected
  procCtx,     \* the capture engine each processor was created on
  currentTime, \* clock of the engine in outputAudioContext
  decodes,     \* handleMessage calls suspended in `await decodeAudioData`
  micLive,     \* calls whose microphone stream has tracks that were not stopped
  nVideo, videoLive, frames, \* interval timers and snapshots being encoded
  \* what the last task did, as seen from outside the client
  out,         \* callbacks invoked and calls made on remote connections
  items,       \* items handed to onTranscription
  sched,       \* the chunk started by source.start
  flushed,     \* the accumulators a turnComplete found
  dropped,     \* the messages whose audio chunk failed to decode
  handled,     \* the message handleMessage ran to its end on
  \* history
  lastEnd,     \* start + duration of the last chunk started, -1 if none
  timedOut,    \* calls whose timeout error was delivered
  abandoned,   \* calls that were being established when disconnect() ran
  closeAsked,  \* session promises on which a disconnect() requested closure
  heard,       \* the fragments delivered for each sender since its last item
  \* the PCM codec of utils/audioUtils, run on one block of samples
  floats,      \* the Float32Array handed to createPcmBlob (numerators)
  pcm,         \* the bytes of the 16-bit little-endian payload
  playable,    \* the channel data decodeAudioData produced (numerators)
  pcmStage     \* "idle", "captured", "encoded" or "decoded"

vars == << sessionPromise, inputAudioContext, outputAudioContext, outputGainNode,
           inputSource, processor, audioStreamDestination, nextStartTime, isActive,
           videoInterval, connectionTimeoutId,
           currentInputTranscription, currentOutputTranscription,
           nCalls, pc, awaiting, timer, conn, race, reactions, closedIn, closedOut,
           procOn, procCtx, currentTime, decodes, micLive, nVideo, videoLive,
           frames,
           out, items, sched, flushed, dropped, handled,
           lastEnd, timedOut, abandoned, closeAsked, heard,
           floats, pcm, playable, pcmStage >>

\* The state as one record, so that the client's methods are functions on it.
St ==
  [ sessionPromise |-> sessionPromise, inputAudioContext |-> inputAudioContext,
    outputAudioContext |-> outputAudioContext, outputGainNode |-> outputGainNode,
    inputSource |-> inputSource, processor |-> processor,
    audioStreamDestination |-> audioStreamDestination,
    nextStartTime |-> nextStartTime, isActive |-> isActive,
    videoInterval |-> videoInterval, connectionTimeoutId |-> connectionTimeoutId,
    currentInputTranscription |-> currentInputTranscription,
    currentOutputTranscription |-> currentOutputTranscription,
    nCalls |-> nCalls, pc |-> pc, awaiting |-> awaiting, timer |-> timer,
    conn |-> conn, race |-> race, reactions |-> reactions,
    closedIn |-> closedIn, closedOut |-> closedOut,
    procOn |-> procOn, procCtx |-> procCtx, currentTime |-> currentTime,
    decodes |-> decodes, micLive |-> micLive, nVideo |-> nVideo, videoLive |-> videoLive,
    frames |-> frames,
    out |-> << >>, items |-> << >>, sched |-> << >>, flushed |-> << >>,
    dropped |-> << >>, handled |-> << >>,
    lastEnd |-> lastEnd, timedOut |-> timedOut, abandoned |-> abandoned,
    closeAsked |-> closeAsked, heard |-> heard ]

\* Objects nothing can reach any more are forgotten: a settled session promise
\* the client no longer references, a processor that was disconnected or
\* whose engine was closed, the history of a connection that is over.
forget(s) ==
  [s EXCEPT
     !.timedOut = {k \in @ : s.conn[k] \in {"pending", "open"}},
     !.abandoned = {k \in @ : \/ s.pc[k] # "done"
                              \/ s.conn[k] \in {"pending", "open"}},
     !.closeAsked = {k \in @ : s.conn[k] \in {"pending", "open", "closing"}},
     !.race = [k \in Calls |->
                 IF s.race[k] \in {"resolved", "rejected"} /\ s.sessionPromise # k
                 THEN "none" ELSE s.race[k]],
     !.procOn = {k \in s.procOn : s.procCtx[k] \notin s.closedIn},
     !.procCtx = [k \in Calls |->
                 IF k \in s.procOn /\ s.procCtx[k] \notin s.closedIn
                 THEN s.procCtx[k] ELSE 0]]

Commit(t) ==
  \E s \in {forget(t)} :
  /\ sessionPromise' = s.sessionPromise
  /\ inputAudioContext' = s.inputAudioContext
  /\ outputAudioContext' = s.outputAudioContext
  /\ outputGainNode' = s.outputGainNode
  /\ inputSource' = s.inputSource
  /\ processor' = s.processor
  /\ audioStreamDestination' = s.audioStreamDestination
  /\ nextStartTime' = s.nextStartTime
  /\ isActive' = s.isActive
  /\ videoInterval' = s.videoInterval
  /\ connectionTimeoutId' = s.connectionTimeoutId
  /\ currentInputTranscription' = s.currentInputTranscription
  /\ currentOutputTranscription' = s.currentOutputTranscription
  /\ nCalls' = s.nCalls
  /\ pc' = s.pc
  /\ awaiting' = s.awaiting
  /\ timer' = s.timer
  /\ conn' = s.conn
  /\ race' = s.race
  /\ reactions' = s.reactions
  /\ closedIn' = s.closedIn
  /\ closedOut' = s.closedOut
  /\ procOn' = s.procOn
  /\ procCtx' = s.procCtx
  /\ currentTime' = s.currentTime
  /\ decodes' = s.decodes
  /\ micLive' = s.micLive
  /\ nVideo' = s.nVideo
  /\ videoLive' = s.videoLive
  /\ frames' = s.frames
  /\ out' = s.out
  /\ items' = s.items
  /\ sched' = s.sched
  /\ flushed' = s.flushed
  /\ dropped' = s.dropped
  /\ lastEnd' = s.lastEnd
  /\ timedOut' = s.timedOut
  /\ abandoned' = s.abandoned
  /\ closeAsked' = s.closeAsked
  /\ handled' = s.handled
  /\ heard' = s.heard
  /\ UNCHANGED << floats, pcm, playable, pcmStage >>

\* The client after its constructor (geminiLive.ts:15-33).
InitClient ==
  /\ sessionPromise = 0 /\ inputAudioContext = 0 /\ outputAudioContext = 0
  /\ outputGainNode = 0 /\ inputSource = 0 /\ processor = 0
  /\ audioStreamDestination = 0 /\ nextStartTime = 0 /\ isActive = FALSE
  /\ videoInterval = 0 /\ connectionTimeoutId = 0
  /\ currentInputTranscription = << >> /\ currentOutputTranscription = << >>
  /\ nCalls = 0
  /\ pc = [k \in Calls |-> "none"]
  /\ awaiting = [k \in Calls |-> 0]
  /\ timer = [k \in Calls |-> "none"]
  /\ conn = [k \in Calls |-> "none"]
  /\ race = [k \in Calls |-> "none"]
  /\ reactions = [k \in Calls |-> << >>]
  /\ closedIn = {} /\ closedOut = {}
  /\ procOn = {} /\ procCtx = [k \in Calls |-> 0]
  /\ currentTime = 0
  /\ decodes = << >> /\ micLive = {}
  /\ nVideo = 0 /\ videoLive = {} /\ frames = << >>
  /\ out = << >> /\ items = << >> /\ sched = << >> /\ flushed = << >>
  /\ dropped = << >> /\ handled = << >>
  /\ lastEnd = -1 /\ timedOut = {} /\ abandoned = {} /\ closeAsked = {}
  /\ heard = [input |-> << >>, output |-> << >>]

Init ==
  /\ InitClient
  /\ floats = << >> /\ pcm = << >> /\ playable = << >> /\ pcmStage = "idle"

\* One entry of `out`: a callback of LiveConnectionCallbacks invoked by the
\* client or a method it called on the session of connection k; act is the
\* activity flag, cursor the playback cursor and stale the age of the payload
\* at that moment.
Ev(ev, k, msg, s) ==
  [ev |-> ev, k |-> k, msg |-> msg, act |-> s.isActive,
   cursor |-> s.nextStartTime, stale |-> FALSE]

emit(s, ev, k, msg) == [s EXCEPT !.out = Append(@, Ev(ev, k, msg, s))]

\* ---- promise plumbing -----------------------------------------------------

\* A then-callback registered on a session promise: what it does, the age of
\* its payload, and whether the session it will receive has a send method.
\* A then-callback registered on a session promise: what it calls on the
\* session, and for a microphone frame its place among the frames captured
\* for that promise.
reaction(kind, stale, send) ==
  [kind |-> kind, stale |-> stale, send |-> send, id |-> 0]

\* runReaction calling session.send without testing that it exists
runReactionAnySession(s, k, r) ==
  IF r.kind = "close"
  THEN [emit(s, "close", k, "") EXCEPT
          !.conn[k] = IF @ = "open" THEN "closing" ELSE @]
  ELSE IF r.kind = "sendText"
  THEN emit(s, "send", k, "turnComplete")
  ELSE [s EXCEPT !.out = Append(@, [Ev(r.kind, k, r.id, s) EXCEPT !.stale = r.stale])]

\* The body of a then-callback registered on a session promise, run with the
\* session of connection k.
runReaction(s, k, r) ==
  IF r.kind = "close"
  THEN \* cleanup: if(session && session.close) session.close()
       [emit(s, "close", k, "") EXCEPT
          !.conn[k] = IF @ = "open" THEN "closing" ELSE @]
  ELSE IF r.kind = "sendText"
  THEN \* sendTextMessage: if (session.send) session.send({ clientContent })
       IF r.send THEN emit(s, "send", k, "turnComplete")
       ELSE s   \* console.warn
  ELSE \* session.sendRealtimeInput({ media })
       [s EXCEPT !.out = Append(@, [Ev(r.kind, k, r.id, s) EXCEPT !.stale = r.stale])]

\* thenSession with the callback put ahead of those registered earlier
thenSessionFirst(s, r) ==
  LET p == s.sessionPromise IN
  IF p = 0 THEN s
  ELSE IF s.race[p] = "pending" THEN [s EXCEPT !.reactions[p] = << r >> \o @]
  ELSE IF s.race[p] = "resolved" THEN runReaction(s, p, r)
  ELSE s

\* this.sessionPromise.then(f).catch(g) where g only logs
thenSession(s, r) ==
  LET p == s.sessionPromise IN
  IF p = 0 THEN s
  ELSE IF s.race[p] = "pending" THEN [s EXCEPT !.reactions[p] = Append(@, r)]
  ELSE IF s.race[p] = "resolved" THEN runReaction(s, p, r)
  ELSE s

RECURSIVE runReactions(_, _, _)
runReactions(s, k, q) ==
  IF q = << >> THEN s ELSE runReactions(runReaction(s, k, Head(q)), k, Tail(q))

\* ---- stopVideoStreaming / cleanup -----------------------------------------

stopVideoStreaming(s) ==
  IF s.videoInterval # 0
  THEN [s EXCEPT !.videoLive = @ \ {s.videoInterval}, !.videoInterval = 0]
  ELSE s

clearTimeout(s, id) ==
  IF id \in Calls /\ s.timer[id] = "armed" THEN [s EXCEPT !.timer[id] = "none"] ELSE s

\* cleanup without line 320
cleanupKeepsSession(s) ==
  LET s1 == IF s.connectionTimeoutId # 0
            THEN [clearTimeout(s, s.connectionTimeoutId) EXCEPT !.connectionTimeoutId = 0]
            ELSE s
      s2 == stopVideoStreaming(s1)
      s3 == [s2 EXCEPT
               !.procOn = @ \ {s2.processor},
               !.closedIn = @ \cup ({s2.inputAudioContext} \ {0}),
               !.closedOut = @ \cup ({s2.outputAudioContext} \ {0})]
      s4 == thenSession(s3, reaction("close", FALSE, TRUE))
  IN [s4 EXCEPT
        !.inputSource = 0, !.processor = 0,
        !.inputAudioContext = 0, !.outputAudioContext = 0,
        !.outputGainNode = 0,
        !.audioStreamDestination = 0,
        \* snapshots being encoded now were taken before this teardown
        !.frames = [i \in DOMAIN @ |-> [@[i] EXCEPT !.stale = TRUE]]]

\* cleanup without line 321
cleanupKeepsTap(s) ==
  LET s1 == IF s.connectionTimeoutId # 0
            THEN [clearTimeout(s, s.connectionTimeoutId) EXCEPT !.connectionTimeoutId = 0]
            ELSE s
      s2 == stopVideoStreaming(s1)
      s3 == [s2 EXCEPT
               !.procOn = @ \ {s2.processor},
               !.closedIn = @ \cup ({s2.inputAudioContext} \ {0}),
               !.closedOut = @ \cup ({s2.outputAudioContext} \ {0})]
      s4 == thenSession(s3, reaction("close", FALSE, TRUE))
  IN [s4 EXCEPT
        !.inputSource = 0, !.processor = 0,
        !.inputAudioContext = 0, !.outputAudioContext = 0,
        !.outputGainNode = 0, !.sessionPromise = 0,
        \* snapshots being encoded now were taken before this teardown
        !.frames = [i \in DOMAIN @ |-> [@[i] EXCEPT !.stale = TRUE]]]

\* cleanup (288-322)
cleanup(s) ==
  LET s1 == IF s.connectionTimeoutId # 0
            THEN [clearTimeout(s, s.connectionTimeoutId) EXCEPT !.connectionTimeoutId = 0]
            ELSE s
      s2 == stopVideoStreaming(s1)
      s3 == [s2 EXCEPT
               !.procOn = @ \ {s2.processor},
               !.closedIn = @ \cup ({s2.inputAudioContext} \ {0}),
               !.closedOut = @ \cup ({s2.outputAudioContext} \ {0})]
      s4 == thenSession(s3, reaction("close", FALSE, TRUE))
  IN [s4 EXCEPT
        !.inputSource = 0, !.processor = 0,
        !.inputAudioContext = 0, !.outputAudioContext = 0,
        !.outputGainNode = 0, !.sessionPromise = 0,
        !.audioStreamDestination = 0,
        \* snapshots being encoded now were taken before this teardown
        !.frames = [i \in DOMAIN @ |-> [@[i] EXCEPT !.stale = TRUE]]]

\* the session promise of call k settles; the callback registered at
\* geminiLive.ts:107 is always the first reaction
settle(s, k, how, msg) ==
  IF s.race[k] # "pending" THEN s
  ELSE IF how = "resolved"
  THEN runReactions([s EXCEPT !.race[k] = "resolved", !.reactions[k] = << >>],
                    k, s.reactions[k])
  ELSE LET c == cleanup([s EXCEPT !.race[k] = "rejected", !.reactions[k] = << >>])
       IN [emit(c, "onError", k, msg) EXCEPT
             !.timedOut = IF msg = "timed out" THEN @ \cup {k} ELSE @]

\* ---- connect --------------------------------------------------------------

\* the catch block of connect (113-117)
connectCatch(s, k, msg) ==
  emit([cleanup(s) EXCEPT !.pc[k] = "done", !.awaiting[k] = 0], "onError", k, msg)

\* lines 47-60, up to the await of getUserMedia
connectOutputGraph(s, k) ==
  IF s.outputAudioContext = 0 THEN connectCatch(s, k, "TypeError")
  ELSE [s EXCEPT !.outputGainNode = k, !.audioStreamDestination = k,
                 !.pc[k] = "getUserMedia", !.awaiting[k] = 0]

\* line 44
connectResumeOutput(s, k, suspended) ==
  IF s.outputAudioContext = 0 THEN connectCatch(s, k, "TypeError")
  ELSE IF suspended
  THEN [s EXCEPT !.pc[k] = "resumeOutput", !.awaiting[k] = s.outputAudioContext]
  ELSE connectOutputGraph(s, k)

\* lines 36-43
connectStart(s, k, suspendedIn, suspendedOut) ==
  LET s1 == [s EXCEPT !.nCalls = k, !.inputAudioContext = k,
                      !.outputAudioContext = k, !.currentTime = 0]
  IN IF suspendedIn
     THEN [s1 EXCEPT !.pc[k] = "resumeInput", !.awaiting[k] = k]
     ELSE connectResumeOutput(s1, k, suspendedOut)

\* lines 62-111, after getUserMedia resolved
connectEstablish(s, k) ==
  [s EXCEPT !.micLive = @ \cup {k},   \* the stream of line 60
            !.isActive = TRUE,
            !.timer[k] = "armed", !.connectionTimeoutId = k,
            !.conn[k] = "pending",
            !.race[k] = "pending", !.sessionPromise = k,
            !.pc[k] = "done"]

\* calls that still have a continuation, a timer or a connection
inFlight ==
  {k \in Calls : \/ pc[k] \notin {"none", "done"}
                 \/ timer[k] = "armed"
                 \/ conn[k] \notin {"none", "closed"}}

connect ==
  IF isActive
  THEN Commit(St)
  ELSE /\ nCalls < MaxCalls
       /\ Cardinality(inFlight) < MaxInFlight
       /\ \E suspendedIn, suspendedOut \in BOOLEAN :
            Commit(connectStart(St, nCalls + 1, suspendedIn, suspendedOut))

\* inputAudioContext.resume() resolved
resumedInput(k) ==
  /\ pc[k] = "resumeInput"
  /\ \E suspendedOut \in BOOLEAN : Commit(connectResumeOutput(St, k, suspendedOut))

\* outputAudioContext.resume() resolved
resumedOutput(k) ==
  /\ pc[k] = "resumeOutput"
  /\ Commit(connectOutputGraph(St, k))

\* resume() of an engine that was closed meanwhile may reject instead
resumeRejected(k) ==
  /\ \/ pc[k] = "resumeInput" /\ awaiting[k] \in closedIn
     \/ pc[k] = "resumeOutput" /\ awaiting[k] \in closedOut
  /\ Commit(connectCatch(St, k, "InvalidStateError"))

getUserMediaResolved(k) ==
  /\ pc[k] = "getUserMedia"
  /\ Commit(connectEstablish(St, k))

getUserMediaRejected(k) ==
  /\ pc[k] = "getUserMedia"
  /\ Commit(connectCatch(St, k, "NotAllowedError"))

\* the setTimeout callback of line 66 rejects timeoutPromise
timeoutFired(k) ==
  /\ timer[k] = "armed"
  /\ Commit(settle([St EXCEPT !.timer[k] = "none"], k, "rejected", "timed out"))

\* ---- the remote connection ------------------------------------------------

setupAudioInput(s, k) ==
  IF s.inputAudioContext = 0 THEN s
  ELSE [s EXCEPT !.inputSource = k, !.processor = k,
                 !.procOn = @ \cup {k}, !.procCtx[k] = s.inputAudioContext]

\* callbacks.onopen (83-88); the SDK resolves the promise returned by
\* ai.live.connect right after the callback, in the same task
onopen(k) ==
  /\ conn[k] = "pending"
  /\ LET s1 == clearTimeout(St, connectionTimeoutId)
         s2 == emit(setupAudioInput(s1, k), "onOpen", k, "")
     IN Commit(settle([s2 EXCEPT !.conn[k] = "open"], k, "resolved", ""))

\* callbacks.onclose (92-96)
onclose(k) ==
  /\ conn[k] \in {"open", "closing", "errored"}
  /\ Commit(emit(cleanup([St EXCEPT !.conn[k] = "closed"]), "onClose", k, ""))

\* callbacks.onerror (97-101)
onerror(k) ==
  /\ conn[k] \in {"pending", "open", "closing"}
  /\ Commit(emit(cleanup([St EXCEPT !.conn[k] = "errored"]), "onError", k, "transport"))

\* the promise returned by ai.live.connect rejects
connectionRejected(k) ==
  /\ conn[k] = "pending"
  /\ Commit(settle([St EXCEPT !.conn[k] = "closed"], k, "rejected", "rejected"))

\* connect() on a client whose earlier sessions have all ended
connectAgain ==
  /\ ~isActive
  /\ nCalls < MaxCalls
  /\ inFlight = {}
  /\ Commit(connectStart(St, nCalls + 1, FALSE, FALSE))

\* ---- inbound messages --------------------------------------------------

\* Math.min
Min(a, b) == IF a <= b THEN a ELSE b

\* Math.max
Max(a, b) == IF a >= b THEN a ELSE b

\* String.prototype.trim
trimNothing(str) == str

RECURSIVE trimStart(_)
trimStart(str) ==
  IF str # << >> /\ Head(str) = " " THEN trimStart(Tail(str)) ELSE str

RECURSIVE trimEnd(_)
trimEnd(str) ==
  IF str # << >> /\ str[Len(str)] = " "
  THEN trimEnd(SubSeq(str, 1, Len(str) - 1)) ELSE str

trim(str) == trimEnd(trimStart(str))

\* a non-empty string is truthy
truthy(str) == str # << >>

\* the text of a transcription fragment
Frags == {<< c >> : c \in Chars}

\* a LiveServerMessage: the inline audio of the first part (how its decoding
\* ends and how long the decoded buffer is), the transcription fragments and
\* the turnComplete flag
Messages ==
  [audio : {"none", "ok", "badBase64", "badData"}, dur : 0..MaxDur,
   hasOutput : BOOLEAN, output : Frags, hasInput : BOOLEAN, input : Frags,
   turnComplete : BOOLEAN]

\* messages differing only in a field the handler never reads are one message
Canonical(m) ==
  /\ (m.audio # "ok" => m.dur = 0)
  /\ (~m.hasOutput => m.output = << " " >>)
  /\ (~m.hasInput => m.input = << " " >>)

AudioMessages ==
  {m \in Messages : Canonical(m) /\ ~m.hasOutput /\ ~m.hasInput /\ ~m.turnComplete
                    /\ m.audio # "none"}
\* transcription traffic; the one message with audio is a bare turnComplete,
\* whose flush waits for the decode
TextMessages ==
  {m \in Messages : /\ Canonical(m) /\ m.dur = 0
                    /\ \/ m.audio = "none"
                       \/ m.audio = "ok" /\ m.turnComplete
                                        /\ ~m.hasOutput /\ ~m.hasInput}

\* schedule with the cursor left at the start of the chunk
scheduleNoAdvance(s, m) ==
  IF s.outputAudioContext = 0 THEN s
  ELSE
    LET start == Max(s.nextStartTime, s.currentTime)
        s1 == emit([s EXCEPT !.nextStartTime = start], "onAudioData", 0, m.dur)
    IN IF s.outputGainNode = 0 THEN s1
       ELSE [emit(s1, "start", 0, m.dur) EXCEPT
               !.sched = << [at |-> start, now |-> s.currentTime,
                             cursor |-> s.nextStartTime, prevEnd |-> s.lastEnd,
                             dur |-> m.dur] >>,
               !.lastEnd = start + m.dur]

\* schedule with the cursor moved to the engine's clock without Math.max
scheduleNoMax(s, m) ==
  IF s.outputAudioContext = 0 THEN s
  ELSE
    LET start == s.currentTime
        s1 == emit([s EXCEPT !.nextStartTime = start], "onAudioData", 0, m.dur)
    IN IF s.outputGainNode = 0 THEN s1
       ELSE [emit(s1, "start", 0, m.dur) EXCEPT
               !.sched = << [at |-> start, now |-> s.currentTime,
                             cursor |-> s.nextStartTime, prevEnd |-> s.lastEnd,
                             dur |-> m.dur] >>,
               !.nextStartTime = start + m.dur,
               !.lastEnd = start + m.dur]

\* schedule with onAudioData called before line 184 moves the cursor
scheduleReportsFirst(s, m) ==
  IF s.outputAudioContext = 0 THEN s
  ELSE
    LET start == Max(s.nextStartTime, s.currentTime)
        s1 == [emit(s, "onAudioData", 0, m.dur) EXCEPT !.nextStartTime = start]
    IN IF s.outputGainNode = 0 THEN s1
       ELSE [emit(s1, "start", 0, m.dur) EXCEPT
               !.sched = << [at |-> start, now |-> s.currentTime,
                             cursor |-> s.nextStartTime, prevEnd |-> s.lastEnd,
                             dur |-> m.dur] >>,
               !.nextStartTime = start + m.dur,
               !.lastEnd = start + m.dur]

\* lines 184-202, after decodeAudioData resolved
schedule(s, m) ==
  IF s.outputAudioContext = 0 THEN s   \* TypeError, caught at 203
  ELSE
    LET start == Max(s.nextStartTime, s.currentTime)
        s1 == emit([s EXCEPT !.nextStartTime = start], "onAudioData", 0, m.dur)
    IN IF s.outputGainNode = 0 THEN s1   \* source.connect(null) throws
       ELSE [emit(s1, "start", 0, m.dur) EXCEPT
               !.sched = << [at |-> start, now |-> s.currentTime,
                             cursor |-> s.nextStartTime, prevEnd |-> s.lastEnd,
                             dur |-> m.dur] >>,
               !.nextStartTime = start + m.dur,
               !.lastEnd = start + m.dur]

\* handleTranscription with the model item emitted before the user item
handleTranscriptionModelFirst(s, m) ==
  LET s1 == IF m.hasOutput
            THEN [s EXCEPT !.currentOutputTranscription = @ \o m.output]
            ELSE IF m.hasInput
            THEN [s EXCEPT !.currentInputTranscription = @ \o m.input]
            ELSE s
      f  == [s1 EXCEPT !.flushed = << [input |-> s1.currentInputTranscription,
                                         output |-> s1.currentOutputTranscription] >>]
      s2 == IF truthy(trim(f.currentOutputTranscription))
            THEN [f EXCEPT
                    !.items = Append(@, [text |-> f.currentOutputTranscription,
                                         sender |-> "model", isFinal |-> TRUE]),
                    !.currentOutputTranscription = << >>]
            ELSE f
      s3 == IF truthy(trim(s2.currentInputTranscription))
            THEN [s2 EXCEPT
                    !.items = Append(@, [text |-> s2.currentInputTranscription,
                                         sender |-> "user", isFinal |-> TRUE]),
                    !.currentInputTranscription = << >>]
            ELSE s2
  IN IF m.turnComplete THEN s3 ELSE s1

\* handleTranscription with `if` in place of the `else if` of line 212
handleTranscriptionBoth(s, m) ==
  LET s0 == IF m.hasOutput
            THEN [s EXCEPT !.currentOutputTranscription = @ \o m.output]
            ELSE s
      s1 == IF m.hasInput
            THEN [s0 EXCEPT !.currentInputTranscription = @ \o m.input]
            ELSE s0
      f  == [s1 EXCEPT !.flushed = << [input |-> s1.currentInputTranscription,
                                         output |-> s1.currentOutputTranscription] >>]
      s2 == IF truthy(trim(f.currentInputTranscription))
            THEN [f EXCEPT
                    !.items = Append(@, [text |-> s1.currentInputTranscription,
                                         sender |-> "user", isFinal |-> TRUE]),
                    !.currentInputTranscription = << >>]
            ELSE f
      s3 == IF truthy(trim(s2.currentOutputTranscription))
            THEN [s2 EXCEPT
                    !.items = Append(@, [text |-> s2.currentOutputTranscription,
                                         sender |-> "model", isFinal |-> TRUE]),
                    !.currentOutputTranscription = << >>]
            ELSE s2
  IN IF m.turnComplete THEN s3 ELSE s1

\* lines 208-237
handleTranscription(s, m) ==
  LET s1 == IF m.hasOutput
            THEN [s EXCEPT !.currentOutputTranscription = @ \o m.output]
            ELSE IF m.hasInput
            THEN [s EXCEPT !.currentInputTranscription = @ \o m.input]
            ELSE s
      f  == [s1 EXCEPT !.flushed = << [input |-> s1.currentInputTranscription,
                                         output |-> s1.currentOutputTranscription] >>]
      s2 == IF truthy(trim(f.currentInputTranscription))
            THEN [f EXCEPT
                    !.items = Append(@, [text |-> s1.currentInputTranscription,
                                         sender |-> "user", isFinal |-> TRUE]),
                    !.currentInputTranscription = << >>]
            ELSE f
      s3 == IF truthy(trim(s2.currentOutputTranscription))
            THEN [s2 EXCEPT
                    !.items = Append(@, [text |-> s2.currentOutputTranscription,
                                         sender |-> "model", isFinal |-> TRUE]),
                    !.currentOutputTranscription = << >>]
            ELSE s2
  IN IF m.turnComplete THEN s3 ELSE s1

\* the text held by the two accumulators stays within the bound
fits(s, m) ==
  m.hasOutput \/ m.hasInput =>
    Len(s.currentInputTranscription) + Len(s.currentOutputTranscription) < MaxStr

\* handleMessage without the try of line 180: the exception ends the handler
handleMessageNoCatch(s, m) ==
  IF m.audio # "none" /\ s.outputAudioContext # 0 /\ s.outputGainNode # 0
  THEN IF m.audio = "badBase64"
       THEN [s EXCEPT !.dropped = << m >>]
       ELSE [s EXCEPT !.decodes = Append(@, m)]
  ELSE handleTranscription(s, m)

\* handleMessage up to its first suspension (176-182)
handleMessage(s, m) ==
  IF m.audio # "none" /\ s.outputAudioContext # 0 /\ s.outputGainNode # 0
  THEN IF m.audio = "badBase64"
       THEN \* base64ToUint8Array throws, caught at 203
            handleTranscription([s EXCEPT !.dropped = << m >>], m)
       ELSE [s EXCEPT !.decodes = Append(@, m)]
  ELSE handleTranscription(s, m)

suspends(s, m) ==
  m.audio \in {"ok", "badData"} /\ s.outputAudioContext # 0 /\ s.outputGainNode # 0

\* callbacks.onmessage (89-91) with a message of the set M, while fewer than
\* `room` earlier calls are suspended
receive(k, M, room) ==
  /\ conn[k] \in {"open", "closing"}
  /\ \E m \in M :
       /\ IF suspends(St, m) THEN Len(decodes) < room ELSE fits(St, m)
       /\ Commit(handleMessage(St, m))

onmessage(k, M) ==
  /\ TRUE
  /\ receive(k, M, MaxDecodes)

\* the rest of handleMessage after `await decodeAudioData` (184-237), for the
\* oldest suspended call
resumeHandleMessage(s) ==
  LET m == Head(s.decodes)
      s1 == [s EXCEPT !.decodes = Tail(@)]
  IN handleTranscription(
       IF m.audio = "ok" THEN schedule(s1, m)
       ELSE [s1 EXCEPT !.dropped = << m >>],   \* rejected, caught at 203
       m)

\* the playback cursor stays within its bound
cursorFits(m) ==
  m.audio = "ok" /\ outputAudioContext # 0 =>
    Max(nextStartTime, currentTime) + m.dur <= MaxCursor

\* decodeAudioData settled in a later task; decodes settle in the order they
\* were started
decoded ==
  /\ decodes # << >>
  /\ fits([St EXCEPT !.decodes = Tail(@)], Head(decodes))
  /\ cursorFits(Head(decodes))
  /\ Commit(resumeHandleMessage(St))

\* s with the i-th suspended call moved to the head of the suspended calls
advance(s, i) ==
  [s EXCEPT !.decodes = << @[i] >> \o SubSeq(@, 1, i - 1) \o SubSeq(@, i + 1, Len(@))]

\* decodeAudioData settled in a later task, whichever call it belongs to
decodedAny(i) ==
  /\ i \in DOMAIN decodes
  /\ fits([St EXCEPT !.decodes = Tail(@)], decodes[i])
  /\ cursorFits(decodes[i])
  /\ Commit(resumeHandleMessage(advance(St, i)))

\* decodeAudioData handing the bytes to the engine and settling in a later task
decodeAudioDataDeferred(m) == TRUE

\* decodeAudioData of utils/audioUtils as the specification describes it: a
\* pure conversion of 16-bit PCM bytes to float samples. It waits for
\* nothing, so the promise it returns is not pending when the task ends: the
\* await of line 182 resumes among the microtasks of the task that called it.
decodeAudioDataPending(m) == FALSE

\* the fragments delivered for each sender after message m: the output
\* fragment of m, or else its input fragment, follows the earlier ones
said(h, m) ==
  [input |-> IF m.hasInput /\ ~m.hasOutput THEN h.input \o m.input ELSE h.input,
   output |-> IF m.hasOutput THEN h.output \o m.output ELSE h.output]

sent(s, sender) == \E i \in DOMAIN s.items : s.items[i].sender = sender

\* the record of a delivery: the message handled, and the fragments delivered
\* for a sender since the last item emitted for it
hear(s, m) ==
  [s EXCEPT !.handled = << m >>,
            !.heard = [input |-> IF sent(s, "user") THEN << >>
                                 ELSE said(s.heard, m).input,
                       output |-> IF sent(s, "model") THEN << >>
                                  ELSE said(s.heard, m).output]]

\* callbacks.onmessage (89-91) with the microtasks it makes runnable
onmessageInTask(k, M) ==
  /\ conn[k] \in {"open", "closing"}
  /\ \E m \in M :
       /\ fits(St, m)
       /\ cursorFits(m)
       /\ suspends(St, m) => Len(decodes) < MaxDecodes
       /\ IF suspends(St, m) /\ ~decodeAudioDataPending(m)
          THEN Commit(hear(resumeHandleMessage(handleMessage(St, m)), m))
          ELSE Commit(hear(handleMessage(St, m), m))

\* the clock of the playback engine advances
tick ==
  /\ outputAudioContext # 0
  /\ currentTime < MaxTime
  /\ Commit([St EXCEPT !.currentTime = @ + 1])

\* ---- microphone -----------------------------------------------------------

mediaSend(kind, stale) == reaction(kind, stale, TRUE)

\* the place of the frame being captured among the frames waiting for the
\* client's session promise
captureSeq(s) ==
  IF s.sessionPromise # 0 /\ s.race[s.sessionPromise] = "pending"
  THEN 1 + Len(SelectSeq(s.reactions[s.sessionPromise],
                         LAMBDA r : r.kind = "sendAudio"))
  ELSE 1

queueHasRoom(s) ==
  s.sessionPromise # 0 /\ s.race[s.sessionPromise] = "pending" =>
    Len(SelectSeq(s.reactions[s.sessionPromise],
                  LAMBDA r : r.kind \notin {"close", "sendAudio"})) < MaxQueue

micHasRoom(s) == captureSeq(s) <= MaxMic

\* processor.onaudioprocess (157-170)
onaudioprocess(p) ==
  /\ p \in procOn
  /\ procCtx[p] \notin closedIn
  /\ micHasRoom(St)
  /\ IF ~isActive \/ sessionPromise = 0
     THEN Commit(St)
     ELSE Commit(thenSession(St, [mediaSend("sendAudio", FALSE)
                                    EXCEPT !.id = captureSeq(St)]))

\* ---- video ----------------------------------------------------------------

\* startVideoStreaming without the clearInterval of line 241
startVideoStreamingNoCancel(element) ==
  /\ nVideo < MaxVideo
  /\ IF ~element THEN Commit(St)
     ELSE Commit([St EXCEPT !.nVideo = @ + 1, !.videoInterval = nVideo + 1,
                            !.videoLive = @ \cup {nVideo + 1}])

\* startVideoStreaming (240-274); element is FALSE for a null argument
startVideoStreaming(element) ==
  /\ nVideo < MaxVideo
  /\ LET s1 == IF videoInterval # 0
               THEN [St EXCEPT !.videoLive = @ \ {videoInterval}]
               ELSE St
     IN IF ~element THEN Commit(s1)
        ELSE Commit([s1 EXCEPT !.nVideo = @ + 1, !.videoInterval = nVideo + 1,
                               !.videoLive = @ \cup {nVideo + 1}])

stopVideo == videoInterval # 0 /\ Commit(stopVideoStreaming(St))

\* the setInterval callback (249-273) up to canvas.toBlob
videoTick(v, videoWidth) ==
  /\ v \in videoLive
  /\ IF ~isActive \/ sessionPromise = 0 \/ videoWidth = 0
     THEN Commit(St)
     ELSE /\ Len(frames) < MaxFrames
          /\ Commit([St EXCEPT !.frames = Append(@, [stage |-> "toBlob", stale |-> FALSE])])

\* the toBlob callback (258-260) up to the await of blobToBase64
toBlobDone(hasBlob) ==
  /\ frames # << >> /\ Head(frames).stage = "toBlob"
  /\ IF hasBlob
     THEN Commit([St EXCEPT !.frames[1].stage = "base64"])
     ELSE Commit([St EXCEPT !.frames = Tail(@)])

\* blobToBase64 resolved (261-269)
base64Done ==
  /\ frames # << >> /\ Head(frames).stage = "base64"
  /\ queueHasRoom(St)
  /\ Commit(thenSession([St EXCEPT !.frames = Tail(@)],
                        mediaSend("sendVideo", Head(frames).stale)))

\* ---- volume, text, recording tap ------------------------------------------

\* setVolume without the test of line 125
setVolumeUnguarded(volume) ==
  Commit(emit(emit(St, "setVolume", 0, ""), "setTargetAtTime", outputGainNode, volume))

\* setVolume (124-129)
setVolume(volume) ==
  /\ TRUE
  /\ LET s == emit(St, "setVolume", 0, "")
     IN IF outputGainNode # 0 /\ outputAudioContext # 0
        THEN Commit(emit(s, "setTargetAtTime", outputGainNode, volume))
        ELSE Commit(s)

\* sendTextMessage (131-149); send tells whether the session has a send method
sendTextMessage(send) ==
  /\ queueHasRoom(St)
  /\ LET s == emit(St, "sendTextMessage", sessionPromise,
                   IF send THEN "hasSend" ELSE "noSend")
     IN IF isActive /\ sessionPromise # 0
        THEN Commit(thenSession(s, reaction("sendText", FALSE, send)))
        ELSE Commit(s)

\* getRemoteAudioStream (120-122): the stream of the recording tap, named by
\* the tap, or 0 for null
getRemoteAudioStream(s) ==
  IF s.audioStreamDestination # 0 THEN s.audioStreamDestination ELSE 0

\* ---- disconnect -----------------------------------------------------------

\* a call is being established until its connection opened or its session
\* promise was dropped
establishing(k) ==
  \/ pc[k] \in {"resumeInput", "resumeOutput", "getUserMedia"}
  \/ conn[k] = "pending" /\ sessionPromise = k

disconnect ==
  /\ TRUE
  /\ Commit([cleanup([emit(St, "disconnect", sessionPromise, "") EXCEPT
                        !.isActive = FALSE]) EXCEPT
            !.abandoned = @ \cup {k \in Calls : establishing(k)},
            !.closeAsked = @ \cup ({sessionPromise} \ {0})])

Lifecycle ==
  \/ connect
  \/ \E k \in Calls : resumedInput(k)
  \/ \E k \in Calls : resumedOutput(k)
  \/ \E k \in Calls : resumeRejected(k)
  \/ \E k \in Calls : getUserMediaResolved(k)
  \/ \E k \in Calls : getUserMediaRejected(k)
  \/ \E k \in Calls : timeoutFired(k)
  \/ \E k \in Calls : onopen(k)
  \/ \E k \in Calls : onclose(k)
  \/ \E k \in Calls : onerror(k)
  \/ \E k \in Calls : connectionRejected(k)
  \/ disconnect

Media ==
  \/ \E p \in Calls : onaudioprocess(p)
  \/ \E element \in BOOLEAN : startVideoStreaming(element)
  \/ stopVideo
  \/ \E v \in 1..MaxVideo, videoWidth \in {0, 640} : videoTick(v, videoWidth)
  \/ \E hasBlob \in BOOLEAN : toBlobDone(hasBlob)
  \/ base64Done

Next == Lifecycle \/ Media

Spec == Init /\ [][Next]_vars

\* Sessions one after the other on one client, each ending in any of the
\* ways a session can end, with the inbound messages of one kind.
Sessions ==
  \/ connectAgain
  \/ \E k \in Calls : getUserMediaResolved(k)
  \/ \E k \in Calls : getUserMediaRejected(k)
  \/ \E k \in Calls : timeoutFired(k)
  \/ \E k \in Calls : onopen(k)
  \/ \E k \in Calls : onclose(k)
  \/ \E k \in Calls : onerror(k)
  \/ \E k \in Calls : connectionRejected(k)
  \/ disconnect

NextAudio ==
  \/ Sessions
  \/ \E k \in Calls : onmessage(k, AudioMessages)
  \/ decoded
  \/ tick

SpecAudio == Init /\ [][NextAudio]_vars

NextText ==
  \/ Sessions
  \/ \E k \in Calls : onmessage(k, TextMessages)
  \/ decoded

SpecText == Init /\ [][NextText]_vars

\* Sessions one after the other with the methods the UI calls at any time.
NextControl ==
  \/ Sessions
  \/ \E volume \in {0, 1} : setVolume(volume)
  \/ \E send \in BOOLEAN : sendTextMessage(send)
  \/ \E element \in BOOLEAN : startVideoStreaming(element)
  \/ stopVideo

SpecControl == Init /\ [][NextControl]_vars

\* inbound messages whose audio fails to decode, with at most one
\* transcription fragment, and plain audio that moves the cursor
DecodeMessages ==
  {m \in Messages : /\ Canonical(m) /\ ~(m.hasOutput /\ m.hasInput)
                    /\ (m.hasOutput => m.output = << "a" >>)
                    /\ (m.hasInput => m.input = << "a" >>)
                    /\ \/ m.audio \in {"badBase64", "badData"}
                       \/ m.audio = "ok" /\ m.dur = MaxDur /\ ~m.hasOutput
                                        /\ ~m.hasInput /\ ~m.turnComplete}

\* sessions that open and are closed by either side, with these messages
NextDecode ==
  \/ connectAgain
  \/ \E k \in Calls : getUserMediaResolved(k)
  \/ \E k \in Calls : onopen(k)
  \/ \E k \in Calls : onclose(k)
  \/ disconnect
  \/ \E k \in Calls : onmessage(k, DecodeMessages)
  \/ decoded

SpecDecode == Init /\ [][NextDecode]_vars

\* inbound messages with any mix of audio, one fragment and turnComplete
OrderMessages ==
  {m \in Messages : /\ Canonical(m) /\ ~(m.hasOutput /\ m.hasInput)
                    /\ (m.hasOutput => m.output = << "a" >>)
                    /\ (m.hasInput => m.input = << "a" >>)
                    /\ m.audio # "badBase64"
                    /\ (m.audio = "ok" => m.dur = MaxDur)}

\* sessions that open and are closed by either side; each message is handled
\* in the task that delivers it
NextOrder ==
  \/ connectAgain
  \/ \E k \in Calls : getUserMediaResolved(k)
  \/ \E k \in Calls : onopen(k)
  \/ \E k \in Calls : onclose(k)
  \/ disconnect
  \/ \E k \in Calls : onmessageInTask(k, OrderMessages)

SpecOrder == Init /\ [][NextOrder]_vars

\* ---- properties -----------------------------------------------------------

\* call k is Connecting or Open from the client's point of view
Attempting(k) ==
  \/ pc[k] \in {"resumeInput", "resumeOutput", "getUserMedia"} /\ inputAudioContext = k
  \/ sessionPromise = k /\ conn[k] \in {"pending", "open"}

\* C1: while a call is Connecting or Open, no step creates engines, a timer
\* or a remote connection for another call.
C1_SingleAttempt ==
  [][\A k \in Calls : Attempting(k) =>
        /\ nCalls' = nCalls
        /\ \A j \in Calls \ {k} :
             /\ conn[j] = "none" => conn'[j] = "none"
             /\ timer'[j] = "armed" => timer[j] = "armed"]_vars

\* C2: a call that passed the permission step and whose connection has not
\* opened keeps its 15 s timer armed, and when the timeout error is delivered
\* the engines of that call are closed and the client's references are null.
C2_TimeoutTearsDown ==
  /\ \A k \in Calls :
       sessionPromise = k /\ conn[k] = "pending" /\ race[k] = "pending"
         => timer[k] = "armed"
  /\ \A i \in DOMAIN out :
       out[i].ev = "onError" /\ out[i].msg = "timed out" =>
         /\ inputAudioContext = 0 /\ outputAudioContext = 0
         /\ out[i].k \in closedIn /\ out[i].k \in closedOut

\* C3: onOpen is never invoked for a call whose timeout error was delivered.
C3_TimeoutWins ==
  \A i \in DOMAIN out : out[i].ev = "onOpen" => out[i].k \notin timedOut

\* C4: the connection of a call that was being established when disconnect()
\* ran is never left open.
C4_DisconnectWhileConnecting ==
  \A k \in abandoned : conn[k] # "open"

\* C5: a chunk starts no earlier than the engine's clock, and when the clock
\* has not passed the cursor it starts where the previous chunk ends.
C5_BackToBack ==
  \A i \in DOMAIN sched :
    /\ sched[i].at >= sched[i].now
    /\ sched[i].now <= sched[i].cursor /\ sched[i].prevEnd >= 0
         => sched[i].at = sched[i].prevEnd

C5_Witness ==
  /\ sched # << >>
  /\ sched[1].prevEnd > 0
  /\ sched[1].now <= sched[1].cursor
  /\ sched[1].dur > 0

\* C6: no step decreases the playback cursor.
C6_CursorMonotone == [][nextStartTime' >= nextStartTime]_vars

\* the cursor a session left behind survives the teardown of its engines
C6_Witness ==
  /\ nextStartTime > 0
  /\ outputAudioContext = 0
  /\ closedOut # {}

hasText(str) == \E i \in DOMAIN str : str[i] # " "

expectedItems(acc) ==
  (IF hasText(acc.input)
   THEN << [text |-> acc.input, sender |-> "user", isFinal |-> TRUE] >>
   ELSE << >>)
  \o (IF hasText(acc.output)
      THEN << [text |-> acc.output, sender |-> "model", isFinal |-> TRUE] >>
      ELSE << >>)

\* C7: a turnComplete emits one final item per accumulator that has
\* non-whitespace content, the user's first, and nothing else is emitted.
C7_OneItemPerSender ==
  IF flushed = << >> THEN items = << >> ELSE items = expectedItems(flushed[1])

C7_Witness ==
  /\ Len(items) = 2
  /\ items[1].sender = "user" /\ items[2].sender = "model"

\* C8: no item with empty or whitespace-only text reaches onTranscription.
C8_NoBlankItem ==
  \A i \in DOMAIN items : hasText(items[i].text)

\* a turnComplete that found only whitespace on the user side
C8_Witness ==
  /\ flushed # << >>
  /\ flushed[1].input # << >>
  /\ ~hasText(flushed[1].input)
  /\ \A i \in DOMAIN items : items[i].sender # "user"

\* C9: sendRealtimeInput with a microphone frame is not called while the
\* activity flag is false.
C9_NoAudioWhileInactive ==
  \A i \in DOMAIN out : out[i].ev = "sendAudio" => out[i].act

\* C10: a video frame is sent only while the activity flag is true, and not
\* when its snapshot predates a teardown.
C10_NoVideoAfterTeardown ==
  \A i \in DOMAIN out : out[i].ev = "sendVideo" => out[i].act /\ ~out[i].stale

\* the fields of the client (15-29)
Fields ==
  << sessionPromise, inputAudioContext, outputAudioContext, outputGainNode,
     inputSource, processor, audioStreamDestination, nextStartTime, isActive,
     videoInterval, connectionTimeoutId,
     currentInputTranscription, currentOutputTranscription >>

called(o, method) == \E i \in DOMAIN o : o[i].ev = method

\* C11: a disconnect() call completes in every state and leaves every
\* reference null, the flag false and no video timer or client-held
\* establishment timer pending; a disconnect() that directly follows another
\* changes no field and makes no call on a connection; and no disconnect()
\* requests the closure of a connection whose closure an earlier one requested.
C11_DisconnectIdempotent ==
  [][/\ called(out', "disconnect") =>
          /\ ~isActive' /\ sessionPromise' = 0
          /\ inputAudioContext' = 0 /\ outputAudioContext' = 0
          /\ outputGainNode' = 0 /\ inputSource' = 0 /\ processor' = 0
          /\ audioStreamDestination' = 0
          /\ videoInterval' = 0 /\ connectionTimeoutId' = 0
     /\ called(out, "disconnect") /\ called(out', "disconnect") =>
          /\ Fields' = Fields
          /\ Len(out') = 1
          /\ reactions' = reactions
     /\ \A i \in DOMAIN out' :
          out'[i].ev = "disconnect" /\ out'[i].k # 0 => out'[i].k \notin closeAsked
    ]_vars

\* disconnect() on a client that an earlier disconnect() tore down while its
\* connection, whose closure that call requested, is still closing
C11_Witness ==
  /\ called(out, "disconnect")
  /\ out[1].k = 0 /\ ~out[1].act
  /\ closeAsked # {}

\* the last task tore the session down
tornDown(o) == \E i \in DOMAIN o : o[i].ev \in {"onClose", "onError", "disconnect"}

\* what the client owns besides its fields
Runtime ==
  << pc, timer, conn, race, reactions, closedIn, closedOut, procOn, videoLive >>

\* C12: before the first connect() and right after disconnect(), remote
\* close, error or timeout there is no gain node and no playback engine, and
\* setVolume called without one of them makes no call on a gain node and
\* changes neither a field nor anything the client owns.
C12_SetVolumeNoOp ==
  [][/\ nCalls = 0 => outputGainNode = 0 /\ outputAudioContext = 0
     /\ tornDown(out') => outputGainNode' = 0 /\ outputAudioContext' = 0
     /\ called(out', "setVolume") /\ (outputGainNode = 0 \/ outputAudioContext = 0) =>
          /\ Len(out') = 1
          /\ Fields' = Fields
          /\ Runtime' = Runtime]_vars

\* setVolume on a client whose session, which had an output graph, is gone
C12_Witness ==
  /\ called(out, "setVolume")
  /\ Len(out) = 1
  /\ outputGainNode = 0 /\ outputAudioContext = 0
  /\ closedOut # {}

count(o, ev, k) == Cardinality({i \in DOMAIN o : o[i].ev = ev /\ o[i].k = k})

\* the texts waiting on the session promise of call k for a session that has
\* a send method
queuedTexts(k) ==
  Cardinality({i \in DOMAIN reactions[k] :
                 reactions[k][i].kind = "sendText" /\ reactions[k][i].send})

\* C13: session.send is called once, with one turn marked turnComplete, for
\* each text given to sendTextMessage while the flag was true and a session
\* promise was held, when that promise resolves (or at once when it has
\* resolved) with a session that has a send method; in every other case (flag
\* false, no session promise, promise rejected, session without send) nothing
\* is sent. No path of sendTextMessage throws.
C13_SendText ==
  [][/\ \A k \in Calls :
          count(out', "send", k) =
              (IF race[k] = "pending" /\ count(out', "onOpen", k) = 1
               THEN queuedTexts(k) ELSE 0)
            + (IF \E i \in DOMAIN out' :
                     /\ out'[i].ev = "sendTextMessage" /\ out'[i].k = k
                     /\ out'[i].act /\ out'[i].msg = "hasSend"
                     /\ race[k] = "resolved"
               THEN 1 ELSE 0)
     /\ \A i \in DOMAIN out' : out'[i].ev = "send" => out'[i].msg = "turnComplete"
     /\ called(out', "sendTextMessage") /\ (~isActive \/ sessionPromise = 0) =>
          /\ Len(out') = 1 /\ Fields' = Fields /\ Runtime' = Runtime
    ]_vars

\* a text given while the connection was pending is sent when it opens
C13_Witness ==
  \E k \in Calls : count(out, "onOpen", k) = 1 /\ count(out, "send", k) = 1

\* C14: getRemoteAudioStream returns null before the first connect() and
\* right after every teardown (disconnect, remote close, error, timeout), and
\* returns the stream of the recording tap exactly while the output graph (the
\* gain node on a playback engine) exists.
C14_RemoteStream ==
  /\ nCalls = 0 \/ tornDown(out) => getRemoteAudioStream(St) = 0
  /\ getRemoteAudioStream(St) # 0 => outputGainNode # 0 /\ outputAudioContext # 0
  /\ outputGainNode # 0 =>
       /\ getRemoteAudioStream(St) # 0
       /\ getRemoteAudioStream(St) = audioStreamDestination

\* the session that was torn down had a recording tap
C14_Witness ==
  /\ tornDown(out)
  /\ closedOut # {}
  /\ \E k \in Calls : conn[k] = "closed"
  /\ getRemoteAudioStream(St) = 0

\* C15: when onClose or onError is invoked every reference of the client is
\* null and no video timer and no establishment timer is pending.
C15_TornDownAtCallback ==
  \A i \in DOMAIN out :
    out[i].ev \in {"onClose", "onError"} =>
      /\ inputAudioContext = 0 /\ outputAudioContext = 0
      /\ outputGainNode = 0 /\ inputSource = 0 /\ processor = 0
      /\ audioStreamDestination = 0 /\ sessionPromise = 0
      /\ videoLive = {}
      /\ \A k \in Calls : timer[k] # "armed"

\* C16: onError is invoked at most once for one connect() call: not twice in
\* one task, and not for a call whose timeout error was already delivered
\* (the one error after which the connection of the call is still live).
C16_OneErrorPerAttempt ==
  [][\A k \in Calls :
       /\ count(out', "onError", k) <= 1
       /\ k \in timedOut => count(out', "onError", k) = 0]_vars

\* call j had opened a connection and the client no longer holds its session
Destroyed(j) == pc[j] = "done" /\ conn[j] # "none" /\ sessionPromise # j

\* C17: once a session of the client was destroyed (disconnect, remote close,
\* error or timeout), no step opens a remote connection for a later call.
C17_NotReusable ==
  [][\A j, k \in Calls :
       j < k /\ Destroyed(j) /\ conn[k] = "none" => conn'[k] = "none"]_vars

\* C18: when the permission request of call k fails, onError is invoked with
\* the flag false, no timer is armed and no connection exists for k, the
\* engines call k created are closed and the client holds no engine.
C18_PermissionFailure ==
  \A i \in DOMAIN out :
    out[i].ev = "onError" /\ out[i].msg = "NotAllowedError" =>
      /\ ~out[i].act
      /\ timer[out[i].k] # "armed"
      /\ conn[out[i].k] = "none"
      /\ out[i].k \in closedIn /\ out[i].k \in closedOut
      /\ inputAudioContext = 0 /\ outputAudioContext = 0

\* the accumulators after the fragment of message m was appended (208-215)
appended(m) ==
  [input |-> IF ~m.hasOutput /\ m.hasInput
             THEN currentInputTranscription \o m.input
             ELSE currentInputTranscription,
   output |-> IF m.hasOutput
              THEN currentOutputTranscription \o m.output
              ELSE currentOutputTranscription]

\* C19: the task in which the audio of a message fails to decode leaves the
\* cursor, the flag and every resource as they were, starts no chunk and
\* invokes neither onAudioData nor onError, and handles the transcription
\* fragment and the turnComplete flag of the message as for any message.
C19_DecodeFailureDropsChunk ==
  [][\A i \in DOMAIN dropped' :
       /\ nextStartTime' = nextStartTime
       /\ sched' = << >>
       /\ \A j \in DOMAIN out' : out'[j].ev \notin {"onAudioData", "onError", "onClose"}
       /\ isActive' = isActive
       /\ sessionPromise' = sessionPromise
       /\ inputAudioContext' = inputAudioContext
       /\ outputAudioContext' = outputAudioContext
       /\ outputGainNode' = outputGainNode
       /\ inputSource' = inputSource /\ processor' = processor
       /\ audioStreamDestination' = audioStreamDestination
       /\ videoInterval' = videoInterval
       /\ connectionTimeoutId' = connectionTimeoutId
       /\ Runtime' = Runtime
       /\ IF dropped'[i].turnComplete
          THEN /\ flushed' = << appended(dropped'[i]) >>
               /\ items' = expectedItems(appended(dropped'[i]))
               /\ hasText(appended(dropped'[i]).input) => currentInputTranscription' = << >>
               /\ hasText(appended(dropped'[i]).output) => currentOutputTranscription' = << >>
          ELSE /\ currentInputTranscription' = appended(dropped'[i]).input
               /\ currentOutputTranscription' = appended(dropped'[i]).output
               /\ items' = << >>
    ]_vars

\* a rejected decode of a message that completes a turn, with the cursor
\* advanced by earlier audio: the turn is flushed
C19_Witness ==
  /\ dropped # << >>
  /\ dropped[1].audio = "badData" /\ dropped[1].turnComplete
  /\ items # << >>
  /\ nextStartTime > 0

EncodeScale == 32767
DecodeScale == 32768

\* the float samples drawn as input: [-1, 1] and one step beyond either end
Samples == (-(SampleDen + 1))..(SampleDen + 1)

inRange(a) == -SampleDen <= a /\ a <= SampleDen

Abs(n) == IF n < 0 THEN -n ELSE n

\* Math.max(-1, Math.min(1, x))
clampSample(a) ==
  IF a > SampleDen THEN SampleDen ELSE IF a < -SampleDen THEN -SampleDen ELSE a

\* Math.round(num / den): the nearest integer, halves towards +infinity
round(num, den) == (2 * num + den) \div (2 * den)

\* the same sample scaled by the decoder's divisor
floatToInt16Full(a) == round(DecodeScale * clampSample(a), SampleDen)

\* one sample of createPcmBlob: clamp, multiply by 32767, round
floatToInt16(a) == round(EncodeScale * clampSample(a), SampleDen)

\* an Int16Array element as its two bytes, low byte first (two's complement)
int16Bytes(n) == << (n % 65536) % 256, (n % 65536) \div 256 >>

\* the Int16Array element two bytes hold
bytesInt16(lo, hi) ==
  IF lo + 256 * hi >= 32768 THEN lo + 256 * hi - 65536 ELSE lo + 256 * hi

RECURSIVE createPcmBlob(_)
createPcmBlob(data) ==
  IF data = << >> THEN << >>
  ELSE int16Bytes(floatToInt16(Head(data))) \o createPcmBlob(Tail(data))

\* the channel data of the decoded buffer: every whole sample divided by 32768
decodeAudioData(bytes) ==
  [i \in 1..(Len(bytes) \div 2) |-> bytesInt16(bytes[2 * i - 1], bytes[2 * i])]

Blocks == UNION {[1..n -> Samples] : n \in 1..MaxSamples}

InitPcm ==
  /\ InitClient
  /\ floats \in Blocks
  /\ pcm = << >> /\ playable = << >> /\ pcmStage = "captured"

UnchangedClient ==
  UNCHANGED << sessionPromise, inputAudioContext, outputAudioContext,
               outputGainNode, inputSource, processor, audioStreamDestination,
               nextStartTime, isActive, videoInterval, connectionTimeoutId,
               currentInputTranscription, currentOutputTranscription,
               nCalls, pc, awaiting, timer, conn, race, reactions, closedIn,
               closedOut, procOn, procCtx, currentTime, decodes, micLive, nVideo,
               videoLive, frames, out, items, sched, flushed, dropped,
               handled, heard, lastEnd, timedOut, abandoned, closeAsked >>

\* onaudioprocess encodes the captured block (geminiLive.ts:160-161)
encodeBlock ==
  /\ pcmStage = "captured"
  /\ pcm' = createPcmBlob(floats)
  /\ pcmStage' = "encoded"
  /\ UNCHANGED << floats, playable >>
  /\ UnchangedClient

\* handleMessage decodes the payload (geminiLive.ts:181-182)
decodeBlock ==
  /\ pcmStage = "encoded"
  /\ playable' = decodeAudioData(pcm)
  /\ pcmStage' = "decoded"
  /\ UNCHANGED << floats, pcm >>
  /\ UnchangedClient

NextPcm == encodeBlock \/ decodeBlock

SpecPcm == InitPcm /\ [][NextPcm]_vars

\* the distance between sample i and its round trip, in units of
\* 1 / (SampleDen * DecodeScale)
roundTripError(i) == Abs(DecodeScale * floats[i] - SampleDen * playable[i])

\* C21: every sample x in [-1, 1] of an encoded and decoded array comes back
\* within 1/32768 of x.
C21_RoundTrip ==
  pcmStage = "decoded" =>
    /\ Len(playable) = Len(floats)
    /\ \A i \in DOMAIN floats : inRange(floats[i]) => roundTripError(i) <= SampleDen

\* C21 as it holds: every sample x in [-1, 1] comes back within 1.5/32768 of
\* x, the two scales differing by one part in 32768.
C21_RoundTripAmended ==
  pcmStage = "decoded" =>
    /\ Len(playable) = Len(floats)
    /\ \A i \in DOMAIN floats : inRange(floats[i]) => 2 * roundTripError(i) <= 3 * SampleDen

\* a decoded array with a sample in [-1, 1] that came back further than
\* 1/32768 from where it started
C21_Witness ==
  /\ pcmStage = "decoded"
  /\ \E i \in DOMAIN floats : inRange(floats[i]) /\ roundTripError(i) > SampleDen


\* C22: a connection whose attempt timed out does not stay open: when it
\* opens after the timeout its closure has been requested by the end of the
\* task that opened it.
C22_TimedOutConnectionClosed ==
  \A k \in Calls : k \in timedOut => conn[k] # "open"


\* messages without audio, with any mix of fragments and turnComplete
TranscriptMessages ==
  {m \in Messages : Canonical(m) /\ m.audio = "none"}

\* sessions that open and are closed by either side, with these messages
NextTranscript ==
  \/ connectAgain
  \/ \E k \in Calls : getUserMediaResolved(k)
  \/ \E k \in Calls : onopen(k)
  \/ \E k \in Calls : onclose(k)
  \/ disconnect
  \/ \E k \in Calls : onmessageInTask(k, TranscriptMessages)

SpecTranscript == Init /\ [][NextTranscript]_vars

\* the accumulator items of a sender are cut from
accumulatorOf(sender) == IF sender = "user" THEN "input" ELSE "output"

\* C23: the task that handles a message appends its output fragment to the
\* model accumulator and leaves the user accumulator alone; it appends its
\* input fragment to the user accumulator only when there is no output
\* fragment; and the text of every item it emits is the concatenation, in
\* arrival order, of the fragments delivered for that sender since the last
\* item emitted for it.
C23_Accumulation ==
  [][\A j \in DOMAIN handled' :
       LET m == handled'[j]
           mid == IF m.turnComplete THEN flushed'[1]
                  ELSE [input |-> currentInputTranscription',
                        output |-> currentOutputTranscription']
       IN /\ m.turnComplete <=> flushed' # << >>
          /\ m.hasOutput =>
               /\ mid.output = currentOutputTranscription \o m.output
               /\ mid.input = currentInputTranscription
          /\ ~m.hasOutput /\ m.hasInput =>
               /\ mid.input = currentInputTranscription \o m.input
               /\ mid.output = currentOutputTranscription
          /\ ~m.hasOutput /\ ~m.hasInput =>
               /\ mid.input = currentInputTranscription
               /\ mid.output = currentOutputTranscription
          /\ \A i \in DOMAIN items' :
               items'[i].text = said(heard, m)[accumulatorOf(items'[i].sender)]
    ]_vars

\* a message carrying both fragments and completing the turn: the model item
\* holds the earlier output fragment followed by this one, and the input
\* fragment went nowhere
C23_Witness ==
  /\ handled # << >>
  /\ handled[1].hasOutput /\ handled[1].hasInput /\ handled[1].turnComplete
  /\ Len(items) = 1
  /\ items[1].sender = "model" /\ Len(items[1].text) = 2
  /\ currentInputTranscription = << >>


\* C24: at most one cadence timer is live, and it is the one the client
\* holds in videoInterval: a timer replaced by startVideoStreaming or dropped
\* by stopVideoStreaming is cancelled, and a task that tore the session down
\* leaves none live.
C24_OneVideoTimer ==
  /\ Cardinality(videoLive) <= 1
  /\ videoLive \subseteq {videoInterval}
  /\ videoInterval = 0 => videoLive = {}
  /\ tornDown(out) => videoInterval = 0 /\ videoLive = {}

\* streaming was started twice: the timer of the first call is gone
C24_Witness ==
  /\ nVideo = 2
  /\ videoLive = {2}


\* C25: when a task has delivered onOpen or torn the session down, no
\* establishment timer of the client is left armed on a session promise it
\* can still reject: nothing is left that would produce a timeout error.
C25_NoLateTimeout ==
  (\E i \in DOMAIN out : out[i].ev \in {"onOpen", "onClose", "onError", "disconnect"})
    => \A k \in Calls : ~(timer[k] = "armed" /\ race[k] = "pending")


\* C26: when onOpen is invoked the session is active, and the task that
\* invoked it has created the microphone source and the processor node.
C26_OpenMeansWired ==
  \A i \in DOMAIN out :
    out[i].ev = "onOpen" =>
      /\ out[i].act
      /\ inputSource = out[i].k
      /\ processor = out[i].k


\* sessions that open and are closed by either side while the engine's clock
\* runs; each audio message is handled in the task that delivers it
NextPlayback ==
  \/ connectAgain
  \/ \E k \in Calls : getUserMediaResolved(k)
  \/ \E k \in Calls : onopen(k)
  \/ \E k \in Calls : onclose(k)
  \/ disconnect
  \/ \E k \in Calls : onmessageInTask(k, AudioMessages)
  \/ tick

SpecPlayback == Init /\ [][NextPlayback]_vars

\* what a task did with decoded audio: the onAudioData and source.start calls
playback(o) == SelectSeq(o, LAMBDA e : e.ev \in {"onAudioData", "start"})

\* C27: the task that handles a message whose chunk decodes while the gain
\* node and the playback engine exist invokes onAudioData once, with the
\* decoded buffer and the cursor already at max(cursor, engine time), and
\* then starts that buffer at that cursor; no other task invokes onAudioData
\* or starts a buffer.
C27_ReportedOnceThenStarted ==
  [][IF /\ handled' # << >>
        /\ handled'[1].audio = "ok"
        /\ outputAudioContext # 0 /\ outputGainNode # 0
     THEN /\ Len(playback(out')) = 2
          /\ playback(out')[1].ev = "onAudioData"
          /\ playback(out')[1].msg = handled'[1].dur
          /\ playback(out')[1].cursor = Max(nextStartTime, currentTime)
          /\ playback(out')[2].ev = "start"
          /\ playback(out')[2].msg = handled'[1].dur
          /\ playback(out')[2].cursor = Max(nextStartTime, currentTime)
          /\ Len(sched') = 1
          /\ sched'[1].at = Max(nextStartTime, currentTime)
          /\ sched'[1].dur = handled'[1].dur
     ELSE playback(out') = << >> /\ sched' = << >>
    ]_vars

\* a chunk that arrived after the engine's clock had passed the cursor was
\* reported with the cursor moved up to the clock, then started there
C27_Witness ==
  /\ handled # << >> /\ handled[1].audio = "ok"
  /\ Len(playback(out)) = 2
  /\ sched # << >>
  /\ sched[1].cursor < sched[1].now
  /\ playback(out)[1].cursor = sched[1].now


\* connect() calls that may overlap, sessions that open and are closed by
\* either side, and the script processor capturing frames
NextMic ==
  \/ connect
  \/ \E k \in Calls : resumedInput(k)
  \/ \E k \in Calls : resumedOutput(k)
  \/ \E k \in Calls : getUserMediaResolved(k)
  \/ \E k \in Calls : onopen(k)
  \/ \E k \in Calls : onclose(k)
  \/ disconnect
  \/ \E p \in Calls : onaudioprocess(p)

SpecMic == Init /\ [][NextMic]_vars

\* the microphone frames a task handed to the session of connection k
framesSent(o, k) == SelectSeq(o, LAMBDA e : e.ev = "sendAudio" /\ e.k = k)

\* C28: the frames a task hands to one session are handed over in the order
\* they were captured: the i-th sendRealtimeInput call carries the i-th frame
\* captured for that session promise. (Frames handed over by different tasks
\* are in capture order because a frame is captured after every earlier task.)
C28_CaptureOrder ==
  \A k \in Calls :
    \A i \in DOMAIN framesSent(out, k) : framesSent(out, k)[i].msg = i

\* two frames captured while the session promise was pending, handed over by
\* the task that resolved it
C28_Witness ==
  \E k \in Calls :
    /\ Len(framesSent(out, k)) = 2
    /\ \E i \in DOMAIN out : out[i].ev = "onOpen" /\ out[i].k = k


\* audio chunks of every length that decode
BurstMessages == {m \in AudioMessages : m.audio = "ok"}

\* audio arriving faster than it decodes
onmessageBurst(k) ==
  /\ TRUE
  /\ receive(k, BurstMessages, MaxBurst)

\* sessions that open and are closed by either side while the engine's clock
\* runs; decodes take any time and settle in any order
NextOverlap ==
  \/ connectAgain
  \/ \E k \in Calls : getUserMediaResolved(k)
  \/ \E k \in Calls : onopen(k)
  \/ \E k \in Calls : onclose(k)
  \/ disconnect
  \/ \E k \in Calls : onmessageBurst(k)
  \/ \E i \in 1..MaxBurst : decodedAny(i)
  \/ tick

SpecOverlap == Init /\ [][NextOverlap]_vars

\* C29: a chunk starts at or after the end (start plus duration) of the chunk
\* started before it, and these ends never decrease, so it starts at or after
\* the end of every chunk started earlier.
C29_NoOverlap ==
  [][/\ lastEnd' >= lastEnd
     /\ \A i \in DOMAIN sched' : sched'[i].at >= lastEnd
    ]_vars

\* a chunk started behind an earlier one of positive length while the decode
\* of a third message was still in flight, the engine's clock not having
\* reached the cursor
C29_Witness ==
  /\ sched # << >>
  /\ sched[1].prevEnd > 0
  /\ sched[1].dur > 0
  /\ decodes # << >>


\* connect() calls that may overlap, up to the end of each session
NextLive ==
  \/ connect
  \/ \E k \in Calls : resumedInput(k)
  \/ \E k \in Calls : resumedOutput(k)
  \/ \E k \in Calls : getUserMediaResolved(k)
  \/ \E k \in Calls : timeoutFired(k)
  \/ \E k \in Calls : onopen(k)
  \/ \E k \in Calls : onclose(k)
  \/ \E k \in Calls : onerror(k)
  \/ \E k \in Calls : connectionRejected(k)
  \/ disconnect

\* An armed timer fires: the event loop runs the callback of a setTimeout
\* that was not cleared. Promise reactions run in the task that settles the
\* promise. The remote side owes nothing: a connection may stay pending.
SpecLive ==
  /\ Init
  /\ [][NextLive]_vars
  /\ \A k \in Calls : WF_vars(timeoutFired(k))

\* the same with one connect() at a time
SpecLiveSequential ==
  /\ Init
  /\ [][Sessions]_vars
  /\ \A k \in Calls : WF_vars(timeoutFired(k))

\* call k got past the permission step and its outcome is open
Connecting(k) == pc[k] = "done" /\ conn[k] = "pending" /\ race[k] = "pending"

\* the last task reported the outcome of call k
reported(k) ==
  \E i \in DOMAIN out : out[i].ev \in {"onOpen", "onError"} /\ out[i].k = k

\* C30: a call that got past the permission step is eventually reported
\* through onOpen or onError, unless disconnect() is called first.
C30_OutcomeReported ==
  \A k \in Calls :
    Connecting(k) ~> (reported(k) \/ called(out, "disconnect"))


\* C31: the activity flag is set only while the client holds a session
\* promise, so after a remote close, a transport error or the timeout the
\* flag is false.
C31_ActiveMeansSession ==
  isActive => sessionPromise # 0


\* the last task handled the close or the transport error of connection k
ended(o, k) ==
  \E i \in DOMAIN o :
    /\ o[i].k = k
    /\ \/ o[i].ev = "onClose"
       \/ o[i].ev = "onError" /\ o[i].msg = "transport"

\* C32: when the close or the error of a connection that disconnect() gave up
\* is handled after a later connect() created its engines, those engines are
\* not closed and the client keeps them, its timer and its session promise.
C32_StaleEventsIgnored ==
  [][\A k \in Calls :
       /\ k \in closeAsked
       /\ inputAudioContext \notin {0, k}
       /\ ended(out', k)
       => /\ inputAudioContext' = inputAudioContext
          /\ outputAudioContext' = outputAudioContext
          /\ outputGainNode' = outputGainNode
          /\ audioStreamDestination' = audioStreamDestination
          /\ closedIn' = closedIn /\ closedOut' = closedOut
          /\ sessionPromise' = sessionPromise
          /\ timer' = timer
    ]_vars


\* C33: while the activity flag is false, which from the first connect() on
\* means that disconnect() has returned and no later call has been admitted,
\* no task invokes onAudioData or onTranscription.
C33_SilentAfterDisconnect ==
  [][~isActive => /\ items' = << >>
                  /\ ~called(out', "onAudioData")
    ]_vars


\* C34: a task that tore the session down leaves no microphone stream with
\* live tracks.
C34_MicrophoneReleased ==
  tornDown(out) => micLive = {}


\* C35: a task that tore the session down leaves both transcription
\* accumulators empty and the playback cursor at zero, so that nothing of the
\* session reaches the next one.
C35_NoLeakAcrossSessions ==
  tornDown(out) =>
    /\ currentInputTranscription = << >>
    /\ currentOutputTranscription = << >>
    /\ nextStartTime = 0


\* C36: the task that processed a turnComplete leaves both transcription
\* accumulators empty.
C36_TurnCompleteResets ==
  flushed # << >> =>
    /\ currentInputTranscription = << >>
    /\ currentOutputTranscription = << >>


\* the accumulators as the transcription part of the last task left them
\* before any item was cut from them
accumulated ==
  IF flushed' # << >> THEN flushed'[1]
  ELSE [input |-> currentInputTranscription', output |-> currentOutputTranscription']

\* C37: the task that handles a message keeps every fragment with text it
\* carries, the input fragment and the output fragment alike, at the end of
\* its sender's accumulator, and a turnComplete emits every accumulator that
\* has text in full: no fragment received before it is missing from the items.
C37_NoFragmentLost ==
  [][\A j \in DOMAIN handled' :
       /\ handled'[j].hasInput /\ hasText(handled'[j].input) =>
            accumulated.input = currentInputTranscription \o handled'[j].input
       /\ handled'[j].hasOutput /\ hasText(handled'[j].output) =>
            accumulated.output = currentOutputTranscription \o handled'[j].output
       /\ handled'[j].turnComplete =>
            /\ hasText(accumulated.input) =>
                 \E i \in DOMAIN items' : /\ items'[i].sender = "user"
                                          /\ items'[i].text = accumulated.input
            /\ hasText(accumulated.output) =>
                 \E i \in DOMAIN items' : /\ items'[i].sender = "model"
                                          /\ items'[i].text = accumulated.output
    ]_vars

====
